---- MODULE Spec2Model ----
(***************************************************************************)
(* A model of hpe-copyright/scripts/copyright_check.py: the header         *)
(* reconciler check_and_fix_file, the ignore-pattern matcher should_ignore *)
(* and the orchestration in main.                                          *)
(*                                                                         *)
(* Text is a sequence of symbols.  A symbol is one character, except that  *)
(* the literal words of the copyright template and the multi-character     *)
(* comment tokens are one symbol each.                                     *)
(***************************************************************************)
EXTENDS Integers, Sequences, FiniteSets, TLC

VARIABLES
    \* ---- one file under repeated runs of check_and_fix_file ----
    disk,        \* the bytes of the file
    prefix,      \* the comment prefix of the file's extension
    status,      \* the status of the last run ("none" before the first)
    year,        \* the current_year of the last run
    prevDisk,    \* the bytes of the file before the last run
    prevStatus,  \* the status of the run before the last
    prevYear,    \* the current_year of the run before the last
    runs,        \* the number of runs so far
    nAdded,      \* the number of runs that reported "added"
    \* ---- main ----
    tree,        \* relative path -> [disk, perm], for the files under the root
    args,        \* the parsed command line
    pc,          \* the position of main
    files,       \* the list find_files returned
    idx,         \* the index of the next file of the loop
    results,     \* status -> the list of the files given it
    exitCode,    \* the process exit status (-1 while running)
    rootExists,  \* does the root path exist
    tree0,       \* the tree when main started
    \* ---- load_ignore_patterns and should_ignore ----
    gitignore,        \* the file .gitignore at the root: does it exist, and its lines
    copyrightignore,  \* the file .copyrightignore at the root
    ipc,         \* "start", "loaded" (patterns read), "checked" (should_ignore returned)
    patterns,    \* the pattern list
    relParts,    \* the parts of the relative path
    ignored      \* the value should_ignore returned

fileVars == <<disk, prefix, status, year, prevDisk, prevStatus, prevYear, runs, nAdded>>
mainVars == <<tree, args, pc, files, idx, results, exitCode, rootExists, tree0>>
ignoreVars == <<gitignore, copyrightignore, ipc, patterns, relParts, ignored>>
vars == <<fileVars, mainVars, ignoreVars>>

\* Bounds of the model.
MaxRuns == 3
MaxFiles == 2
MaxDepth == 3

LF == "\n"
CR == "\r"
SP == " "
TAB == "\t"
BadByte == "\\xff"   \* a byte that is no valid UTF-8

----------------------------------------------------------------------------
\* Sequence helpers (Python str and list primitives).

RECURSIVE Concat(_)
Concat(ss) == IF ss = <<>> THEN <<>> ELSE Head(ss) \o Concat(Tail(ss))

Contains(s, c) == \E i \in 1..Len(s) : s[i] = c

StartsWith(s, p) == Len(p) <= Len(s) /\ SubSeq(s, 1, Len(p)) = p

EndsWith(s, p) == Len(p) <= Len(s) /\ SubSeq(s, Len(s) - Len(p) + 1, Len(s)) = p

\* str.rstrip(chars)
RECURSIVE Rstrip(_, _)
Rstrip(s, chars) ==
    IF s # <<>> /\ s[Len(s)] \in chars THEN Rstrip(SubSeq(s, 1, Len(s) - 1), chars) ELSE s

\* str.split(sep) for a one-symbol separator: a list of one or more pieces.
RECURSIVE SplitOn(_, _)
SplitOn(s, sep) ==
    IF ~Contains(s, sep) THEN <<s>>
    ELSE LET i == CHOOSE k \in 1..Len(s) : s[k] = sep /\ \A m \in 1..(k - 1) : s[m] # sep
         IN <<SubSeq(s, 1, i - 1)>> \o SplitOn(SubSeq(s, i + 1, Len(s)), sep)

\* sep.join(pieces)
RECURSIVE JoinWith(_, _)
JoinWith(pieces, sep) ==
    IF pieces = <<>> THEN <<>>
    ELSE IF Len(pieces) = 1 THEN pieces[1]
    ELSE pieces[1] \o <<sep>> \o JoinWith(Tail(pieces), sep)

----------------------------------------------------------------------------
\* Text-mode file I/O (open(..., encoding="utf-8"), newline=None).

\* Reading translates "\r\n" and a lone "\r" to "\n" (universal newlines).
RECURSIVE UniversalNewlines(_)
UniversalNewlines(b) ==
    IF b = <<>> THEN <<>>
    ELSE IF b[1] = CR
         THEN IF Len(b) > 1 /\ b[2] = LF
              THEN <<LF>> \o UniversalNewlines(SubSeq(b, 3, Len(b)))
              ELSE <<LF>> \o UniversalNewlines(Tail(b))
         ELSE <<b[1]>> \o UniversalNewlines(Tail(b))

\* f.read() raises UnicodeDecodeError when the bytes are no valid UTF-8.
Decodable(b) == ~Contains(b, BadByte)

ReadText(b) == UniversalNewlines(b)

\* f.write(text): every "\n" is written as os.linesep ("\n" on POSIX).
os_linesep == <<LF>>

WriteText(text) == Concat([i \in 1..Len(text) |-> IF text[i] = LF THEN os_linesep ELSE <<text[i]>>])

----------------------------------------------------------------------------
\* The copyright line.

Digits == <<"0", "1", "2", "3", "4", "5", "6", "7", "8", "9">>
IsDigit(c) == \E d \in 1..10 : Digits[d] = c
DigitValue(c) == (CHOOSE d \in 1..10 : Digits[d] = c) - 1

\* int(text) of a run of decimal digits
RECURSIVE ParseInt(_)
ParseInt(ds) ==
    IF ds = <<>> THEN 0 ELSE 10 * ParseInt(SubSeq(ds, 1, Len(ds) - 1)) + DigitValue(ds[Len(ds)])

\* str(n): the decimal digits of n, with no padding
RECURSIVE FormatInt(_)
FormatInt(n) ==
    IF n < 0 THEN <<"-">> \o FormatInt(0 - n)
    ELSE IF n < 10 THEN <<Digits[n + 1]>>
    ELSE FormatInt(n \div 10) \o <<Digits[(n % 10) + 1]>>

\* COPYRIGHT_TEMPLATE.format(start_year=..., end_year=...)
CopyrightText(start_year, end_year) ==
    <<"Copyright", SP>> \o FormatInt(start_year) \o <<"-">> \o FormatInt(end_year)
        \o <<SP, "Hewlett", SP, "Packard", SP, "Enterprise", SP, "Development", SP, "LP">>

\* BLOCK_COMMENT_END.get(comment_prefix, "")
BlockCommentEnd(comment_prefix) ==
    IF comment_prefix = "<!--" THEN <<SP, "-->">>
    ELSE IF comment_prefix = "/*" THEN <<SP, "*/">>
    ELSE <<>>

format_copyright_line(comment_prefix, start_year, end_year) ==
    <<comment_prefix, SP>> \o CopyrightText(start_year, end_year) \o BlockCommentEnd(comment_prefix)

\* \s of the pattern
IsSpace(c) == c \in {SP, TAB, LF, CR}

\* The index after the run of whitespace that starts at i (i itself when none).
RECURSIVE SkipSpace(_, _)
SkipSpace(s, i) == IF i <= Len(s) /\ IsSpace(s[i]) THEN SkipSpace(s, i + 1) ELSE i

\* word, then \s+ : the index after them, or 0 when they are not at i.
WordSpace(s, i, word) ==
    IF i >= 1 /\ i <= Len(s) /\ s[i] = word /\ SkipSpace(s, i + 1) > i + 1
    THEN SkipSpace(s, i + 1) ELSE 0

FourDigits(s, i) == i >= 1 /\ i + 3 <= Len(s) /\ \A k \in i..(i + 3) : IsDigit(s[k])

\* COPYRIGHT_PATTERN matched at position i of s:
\* Copyright\s+(\d{4})-(\d{4})\s+Hewlett\s+Packard\s+Enterprise\s+Development\s+LP
MatchAt(s, i) ==
    LET a == WordSpace(s, i, "Copyright")
        yearsOk == /\ a > 0
                   /\ FourDigits(s, a)
                   /\ a + 4 <= Len(s) /\ s[a + 4] = "-"
                   /\ FourDigits(s, a + 5)
                   /\ SkipSpace(s, a + 9) > a + 9
        b == IF yearsOk THEN SkipSpace(s, a + 9) ELSE 0
        c == WordSpace(s, b, "Hewlett")
        d == WordSpace(s, c, "Packard")
        e == WordSpace(s, d, "Enterprise")
        f == WordSpace(s, e, "Development")
    IN  IF yearsOk /\ f > 0 /\ f <= Len(s) /\ s[f] = "LP"
        THEN [found |-> TRUE,
              start_year |-> ParseInt(SubSeq(s, a, a + 3)),
              end_year |-> ParseInt(SubSeq(s, a + 5, a + 8))]
        ELSE [found |-> FALSE, start_year |-> 0, end_year |-> 0]

\* COPYRIGHT_PATTERN.search(first_line): the leftmost match.
Search(s) ==
    IF \E i \in 1..Len(s) : MatchAt(s, i).found
    THEN MatchAt(s, CHOOSE i \in 1..Len(s) :
                      MatchAt(s, i).found /\ \A k \in 1..(i - 1) : ~MatchAt(s, k).found)
    ELSE [found |-> FALSE, start_year |-> 0, end_year |-> 0]

----------------------------------------------------------------------------
\* check_and_fix_file

NoSyntax == "None"   \* get_comment_syntax found no entry for the extension

\* A file: its comment prefix (or NoSyntax), its bytes, and what the process may
\* do with it: "rw" (read and write), "ro" (read only), "no" (no access).
File(comment_prefix, bytes, perm) == [prefix |-> comment_prefix, disk |-> bytes, perm |-> perm]

\* content.split("\n") if content else []
Lines(content) == IF content = <<>> THEN <<>> ELSE SplitOn(content, LF)

\* lines[0] if lines else ""
FirstLine(content) == IF Lines(content) = <<>> THEN <<>> ELSE Lines(content)[1]

\* with open(file_path, "w", encoding="utf-8") as f: f.write(new_content)
\* The open is in no try block: PermissionError leaves the function as an
\* exception, and the file is left as it was.
Persist(f, st, new_content, dry_run) ==
    IF dry_run THEN [status |-> st, disk |-> f.disk, raised |-> FALSE]
    ELSE IF f.perm # "rw" THEN [status |-> "none", disk |-> f.disk, raised |-> TRUE]
    ELSE [status |-> st, disk |-> WriteText(new_content), raised |-> FALSE]

\* The match branch: a header is on the first line.
UpdateBranch(f, content, m, current_year, dry_run) ==
    IF m.end_year = current_year
    THEN [status |-> "ok", disk |-> f.disk, raised |-> FALSE]
    ELSE LET new_copyright_line == format_copyright_line(f.prefix, m.start_year, current_year)
             lines == [Lines(content) EXCEPT ![1] = new_copyright_line]
         IN  Persist(f, "updated", JoinWith(lines, LF), dry_run)

\* The else branch: no header on the first line.
AddBranch(f, content, current_year, dry_run) ==
    LET new_copyright_line == format_copyright_line(f.prefix, current_year, current_year)
        new_content == IF content # <<>> THEN new_copyright_line \o <<LF>> \o content
                                        ELSE new_copyright_line \o <<LF>>
    IN  Persist(f, "added", new_content, dry_run)

\* The result of one call: the status returned (or "none" when the call raised),
\* the bytes of the file afterwards, and whether the call raised.
check_and_fix_file(f, current_year, dry_run) ==
    IF f.prefix = NoSyntax
    THEN [status |-> "skipped", disk |-> f.disk, raised |-> FALSE]
    ELSE IF f.perm = "no" \/ ~Decodable(f.disk)
    THEN [status |-> "error", disk |-> f.disk, raised |-> FALSE]
    ELSE LET content == ReadText(f.disk)
             m == Search(FirstLine(content))
         IN  IF m.found THEN UpdateBranch(f, content, m, current_year, dry_run)
                        ELSE AddBranch(f, content, current_year, dry_run)

----------------------------------------------------------------------------
\* fnmatch.fnmatch(name, pat) on POSIX (normcase is the identity): the whole of
\* name matches pat, where * is any run of characters ("/" included), ? is any one
\* character, [seq] is one character of seq and [!seq] one character not of seq.
\* The alphabet of the model has no "-", so no class holds a range.

\* For pat[i] = "[": the index of the "]" that closes the class, or 0 when none
\* does (fnmatch.translate then takes the "[" literally).
RECURSIVE NextBracket(_, _)
NextBracket(pat, j) ==
    IF j > Len(pat) THEN 0 ELSE IF pat[j] = "]" THEN j ELSE NextBracket(pat, j + 1)

ClassEnd(pat, i) ==
    LET j1 == IF i + 1 <= Len(pat) /\ pat[i + 1] = "!" THEN i + 2 ELSE i + 1
        j2 == IF j1 <= Len(pat) /\ pat[j1] = "]" THEN j1 + 1 ELSE j1
    IN  NextBracket(pat, j2)

\* Does character c match the class pat[i..close]?
InClass(pat, i, close, c) ==
    LET stuff == SubSeq(pat, i + 1, close - 1)
    IN  IF stuff[1] = "!" THEN ~Contains(Tail(stuff), c) ELSE Contains(stuff, c)

RECURSIVE GlobMatch(_, _, _, _)
GlobMatch(pat, i, s, j) ==
    IF i > Len(pat) THEN j > Len(s)
    ELSE IF pat[i] = "*"
         THEN GlobMatch(pat, i + 1, s, j) \/ (j <= Len(s) /\ GlobMatch(pat, i, s, j + 1))
    ELSE IF j > Len(s) THEN FALSE
    ELSE IF pat[i] = "?" THEN GlobMatch(pat, i + 1, s, j + 1)
    ELSE IF pat[i] = "[" /\ ClassEnd(pat, i) > 0
         THEN InClass(pat, i, ClassEnd(pat, i), s[j]) /\ GlobMatch(pat, ClassEnd(pat, i) + 1, s, j + 1)
    ELSE pat[i] = s[j] /\ GlobMatch(pat, i + 1, s, j + 1)

Fnmatch(name, pat) == GlobMatch(pat, 1, name, 1)

----------------------------------------------------------------------------
\* load_ignore_patterns

\* str.strip()
RECURSIVE Lstrip(_, _)
Lstrip(s, chars) == IF s # <<>> /\ s[1] \in chars THEN Lstrip(Tail(s), chars) ELSE s

Strip(line) == Lstrip(Rstrip(line, {SP, TAB, LF, CR}), {SP, TAB, LF, CR})

\* if line and not line.startswith("#")
IsPatternLine(line) == line # <<>> /\ line[1] # "#"

\* The patterns of one ignore file (none when the file does not exist).
FilePatterns(ignore_file) ==
    IF ~ignore_file.exists THEN <<>>
    ELSE SelectSeq([i \in 1..Len(ignore_file.lines) |-> Strip(ignore_file.lines[i])], IsPatternLine)

load_ignore_patterns(git, copyright) == FilePatterns(git) \o FilePatterns(copyright)

----------------------------------------------------------------------------
\* should_ignore

\* str(rel_path)
RelStr(rel_parts) == JoinWith(rel_parts, "/")

\* file_path.name
FileName(rel_parts) == rel_parts[Len(rel_parts)]

\* x in rel_parts
InParts(x, rel_parts) == \E i \in 1..Len(rel_parts) : rel_parts[i] = x

\* pattern.rstrip("/")
PatternClean(pattern) == Rstrip(pattern, {"/"})

\* pattern.endswith("/**") or pattern.endswith("/")
IsDirectoryPattern(pattern) == EndsWith(pattern, <<"/", "*", "*">>) \/ EndsWith(pattern, <<"/">>)

\* pattern_clean.rstrip("*").rstrip("/")
DirPattern(pattern) == Rstrip(Rstrip(PatternClean(pattern), {"*"}), {"/"})

\* The directory branch, a mutant of it: the segment test left out.
MatchDirectory_PrefixOnly(dir_pattern, rel_parts) ==
    StartsWith(RelStr(rel_parts), dir_pattern \o <<"/">>)

\* The directory branch, a mutant of it: the prefix tested without its "/".
MatchDirectory_NoSlash(dir_pattern, rel_parts) ==
    \/ InParts(dir_pattern, rel_parts)
    \/ StartsWith(RelStr(rel_parts), dir_pattern)

\* The directory branch: dir_pattern in rel_parts, or rel_str starts with dir_pattern + "/".
MatchDirectory(dir_pattern, rel_parts) ==
    \/ InParts(dir_pattern, rel_parts)
    \/ StartsWith(RelStr(rel_parts), dir_pattern \o <<"/">>)

\* The body of the loop, a mutant of it: the "[" branch before the path glob.
MatchPattern_ClassFirst(pattern, rel_parts) ==
    LET pattern_clean == PatternClean(pattern)
    IN  IF IsDirectoryPattern(pattern) THEN MatchDirectory(DirPattern(pattern), rel_parts)
        ELSE IF StartsWith(pattern_clean, <<"*", ".">>)
             THEN Fnmatch(FileName(rel_parts), pattern_clean)
        ELSE IF ~Contains(pattern_clean, "/") /\ ~Contains(pattern_clean, "*")
             THEN InParts(pattern_clean, rel_parts) \/ FileName(rel_parts) = pattern_clean
        ELSE IF Contains(pattern_clean, "[") THEN Fnmatch(FileName(rel_parts), pattern_clean)
        ELSE Fnmatch(RelStr(rel_parts), pattern_clean)

\* The body of the loop: TRUE when this pattern makes should_ignore return True.
MatchPattern(pattern, rel_parts) ==
    LET pattern_clean == PatternClean(pattern)
    IN  IF IsDirectoryPattern(pattern) THEN MatchDirectory(DirPattern(pattern), rel_parts)
        ELSE IF StartsWith(pattern_clean, <<"*", ".">>)
             THEN Fnmatch(FileName(rel_parts), pattern_clean)
        ELSE IF ~Contains(pattern_clean, "/") /\ ~Contains(pattern_clean, "*")
             THEN InParts(pattern_clean, rel_parts) \/ FileName(rel_parts) = pattern_clean
        ELSE IF Fnmatch(RelStr(rel_parts), pattern_clean) THEN TRUE
        ELSE IF Contains(pattern_clean, "[") THEN Fnmatch(FileName(rel_parts), pattern_clean)
        ELSE FALSE

\* The loop returns True at the first pattern that matches, False after the last.
should_ignore(rel_parts, pats) == \E i \in 1..Len(pats) : MatchPattern(pats[i], rel_parts)

----------------------------------------------------------------------------
\* The variables of the specifications that are not running.

IdleMain ==
    /\ tree = <<>> /\ args = <<>> /\ pc = "off" /\ files = <<>> /\ idx = 0
    /\ results = <<>> /\ exitCode = -1 /\ rootExists = FALSE /\ tree0 = <<>>

IdleIgnore ==
    /\ gitignore = <<>> /\ copyrightignore = <<>> /\ ipc = "off"
    /\ patterns = <<>> /\ relParts = <<>> /\ ignored = FALSE

IdleFile ==
    /\ disk = <<>> /\ prefix = NoSyntax /\ status = "none" /\ year = 0
    /\ prevDisk = <<>> /\ prevStatus = "none" /\ prevYear = 0 /\ runs = 0 /\ nAdded = 0

----------------------------------------------------------------------------
\* The inputs of the matcher specification.

DirNames ==
    { <<"a">>, <<"a", "b">>, <<"a", "/", "b">>, <<>> }

Segments ==
    { <<"a">>, <<"b">>, <<"a", "b">>, <<"a", ".", "c">>, <<"*">> }

OtherLines ==
    { <<"*", "/">>, <<"*", "*", "/">>, <<"*", "/", "*", "*">>, <<"*", ".", "c">>, <<"*", ".", "[", "b", "c", "]">>,
      <<"a">>, <<"a", "b">>, <<"a", ".", "c">>, <<"[", "a", "b", "]">>,
      <<"*">>, <<"*", "*">>, <<"a", "/", "*">>, <<"*", "b">>,
      <<"a", "?">>, <<"a", "/", "b">>, <<"a", "b", "/", "*">>, <<"*", "/", "*">>,
      <<"a", "b", "*", "[", "b", "c", "]">>, <<"a", "/", "[", "a", "b", "]">>, <<"*", "[", "!", "b", "]">>, <<"[", "a", "b", "]", "/", "*">>,
      <<"a", "*", "[">>, <<"a", "/", "[", "!", "a", "]", "*">>, <<>>, <<"#", "a">>,
      <<" ", "a", "/", " ">>, <<"\t", "a">> }

SecondLines ==
    { <<"b">>, <<"*", ".", "c">>, <<"a", "/", "b", "/">> }


\* The lines of an ignore file: directory patterns d/ and d/**, and the others.
DirectoryLines == { d \o <<"/">> : d \in DirNames } \cup { d \o <<"/", "*", "*">> : d \in DirNames }

IgnoreLines == DirectoryLines \cup OtherLines

Absent == [exists |-> FALSE, lines |-> <<>>]

\* The relative paths: one to MaxDepth segments.
Paths == UNION { [1..n -> Segments] : n \in 1..MaxDepth }

InitIgnore ==
    /\ gitignore \in {Absent} \cup { [exists |-> TRUE, lines |-> <<l>>] : l \in IgnoreLines }
    /\ copyrightignore \in {Absent} \cup { [exists |-> TRUE, lines |-> <<l>>] : l \in SecondLines }
    /\ relParts \in Paths
    /\ ipc = "start" /\ patterns = <<>> /\ ignored = FALSE
    /\ IdleFile /\ IdleMain

\* patterns = load_ignore_patterns(repo_root)
Load ==
    /\ ipc = "start"
    /\ patterns' = load_ignore_patterns(gitignore, copyrightignore)
    /\ ipc' = "loaded"
    /\ UNCHANGED <<gitignore, copyrightignore, relParts, ignored, fileVars, mainVars>>

\* should_ignore(file_path, repo_root, patterns)
Check ==
    /\ ipc = "loaded"
    /\ ignored' = should_ignore(relParts, patterns)
    /\ ipc' = "checked"
    /\ UNCHANGED <<gitignore, copyrightignore, patterns, relParts, fileVars, mainVars>>

NextIgnore == Load \/ Check

SpecIgnore == InitIgnore /\ [][NextIgnore]_vars

----------------------------------------------------------------------------
\* Properties of the matcher specification.

\* should_ignore has returned for a list of one pattern.
CheckedOne == ipc = "checked" /\ Len(patterns) = 1

\* The patterns of the last two rules: no directory pattern, no "*." at the start,
\* and a "/" or a "*" in it.
IsGlobRulePattern(pattern) ==
    /\ ~IsDirectoryPattern(pattern)
    /\ ~StartsWith(pattern, <<"*", ".">>)
    /\ (Contains(pattern, "/") \/ Contains(pattern, "*"))

\* The last two rules as section 4.1 orders them: a pattern with "[" is matched
\* against the base name, any other against the whole relative path.
ClassThenPathGlob(pattern, rel_parts) ==
    IF Contains(pattern, "[") THEN Fnmatch(FileName(rel_parts), pattern)
    ELSE Fnmatch(RelStr(rel_parts), pattern)

\* C8 (as claimed): for a pattern of the last two rules, a pattern with "[" matches
\* exactly when the base name matches it, and only a pattern without "[" is matched
\* against the whole relative path.
C8_ClassBeforePathGlob ==
    (CheckedOne /\ IsGlobRulePattern(patterns[1])) =>
        ignored = ClassThenPathGlob(patterns[1], relParts)

\* C8 (amended): for a pattern of the last two rules, should_ignore returns true
\* exactly when the whole relative path matches the pattern as a glob, or the
\* pattern has a "[" and the base name matches it.
C8_PathGlobBeforeClass ==
    (CheckedOne /\ IsGlobRulePattern(patterns[1])) =>
        ignored = ( \/ Fnmatch(RelStr(relParts), patterns[1])
                    \/ (Contains(patterns[1], "[") /\ Fnmatch(FileName(relParts), patterns[1])) )

\* A pattern with "[" that ignores a path whose base name it does not match.
C8_Witness ==
    /\ CheckedOne /\ IsGlobRulePattern(patterns[1])
    /\ Contains(patterns[1], "[")
    /\ ignored
    /\ ~Fnmatch(FileName(relParts), patterns[1])

\* The bare directory name of section 4.1, rule 1: the pattern without its trailing
\* "/", then without its trailing "*", then without its trailing "/" characters.
BareDirectoryName(pattern) == Rstrip(Rstrip(Rstrip(pattern, {"/"}), {"*"}), {"/"})

EndsAsDirectory(pattern) == EndsWith(pattern, <<"/">>) \/ EndsWith(pattern, <<"/", "*", "*">>)

\* C9: for a pattern d/ or d/**, should_ignore returns true for every path with a
\* segment equal to d or that starts with d/, and for no other path; d is the
\* bare directory name of the pattern.
C9_DirectoryAnyDepth ==
    /\ \A d \in DirNames :
          (CheckedOne /\ patterns[1] \in {d \o <<"/">>, d \o <<"/", "*", "*">>}) =>
              ignored = (InParts(d, relParts) \/ StartsWith(RelStr(relParts), d \o <<"/">>))
    /\ (CheckedOne /\ EndsAsDirectory(patterns[1])) =>
          ignored = ( \/ InParts(BareDirectoryName(patterns[1]), relParts)
                      \/ StartsWith(RelStr(relParts), BareDirectoryName(patterns[1]) \o <<"/">>) )

\* sub/d/y: the directory is below the root, and the path is ignored.
C9_Witness ==
    /\ CheckedOne /\ ignored
    /\ Len(relParts) = 3
    /\ \E d \in DirNames :
          /\ patterns[1] = d \o <<"/">>
          /\ relParts[2] = d /\ relParts[1] # d /\ relParts[3] # d

\* A root file named d, and a path that only starts with d/ (d holds a "/").
C9_WitnessRootFileAndPrefix ==
    \/ /\ CheckedOne /\ ignored /\ Len(relParts) = 1 /\ patterns[1] = relParts[1] \o <<"/">>
    \/ /\ CheckedOne /\ ignored /\ patterns[1] = <<"a", "/", "b", "/", "*", "*">>
       /\ ~InParts(DirPattern(patterns[1]), relParts)

\* C10 (as claimed): an empty pattern list ignores nothing, and a pattern that is
\* empty once its trailing "/" and "*" characters are stripped matches no path.
C10_EmptyAfterStripNeverMatches ==
    /\ (ipc = "checked" /\ patterns = <<>>) => ~ignored
    /\ (CheckedOne /\ Rstrip(patterns[1], {"/", "*"}) = <<>>) => ~ignored

\* C10 (amended): an empty pattern list ignores nothing, and a directory pattern
\* (one ending in "/" or "/**") whose directory name is empty, once its trailing
\* "/", then its trailing "*", then its trailing "/" characters are stripped (such
\* as "/", "/**", "**/"), matches no path.
C10_EmptyDirectoryNeverMatches ==
    /\ (ipc = "checked" /\ patterns = <<>>) => ~ignored
    /\ (CheckedOne /\ EndsAsDirectory(patterns[1]) /\ BareDirectoryName(patterns[1]) = <<>>)
          => ~ignored

\* should_ignore has returned for the pattern "/**" and a path of two segments.
C10_Witness ==
    /\ CheckedOne /\ patterns[1] = <<"/", "*", "*">> /\ Len(relParts) = 2 /\ ~ignored

\* The empty pattern list: no ignore file gave a pattern, and should_ignore returned.
C10_WitnessEmptyList ==
    ipc = "checked" /\ patterns = <<>> /\ gitignore.exists /\ ~ignored

----------------------------------------------------------------------------
\* The inputs of the single-file specification.

Prefixes == {"#", "//", "<!--", NoSyntax}

Years == {999, 2024, 2025}

Header(ws, sd, ed) ==
    <<"Copyright">> \o ws \o sd \o <<"-">> \o ed \o ws \o <<"Hewlett">> \o ws \o <<"Packard">>
        \o ws \o <<"Enterprise">> \o ws \o <<"Development">> \o ws \o <<"LP">>

HeaderLines ==
    { pre \o Header(ws, sd, ed) \o post :
        pre \in {<<"#", SP>>, <<"x">>},
        ws \in {<<SP>>, <<SP, TAB>>},
        sd \in {<<"2", "0", "2", "1">>, <<"0", "9", "9", "9">>},
        ed \in {<<"2", "0", "2", "4">>, <<"2", "0", "2", "5">>},
        post \in {<<>>, <<SP, "-->">>} }

\* Lines that are no header: too few digits, a word missing, no space.
NearMisses ==
    { <<"#", SP, "Copyright", SP, "9", "9", "9", "-", "2", "0", "2", "5", SP, "Hewlett", SP,
        "Packard", SP, "Enterprise", SP, "Development", SP, "LP">>,
      <<"#", SP, "Copyright", SP, "2", "0", "2", "1", "-", "2", "0", "2", "5", SP, "Hewlett", SP,
        "Packard", SP, "Enterprise", SP, "Development">>,
      <<"#", SP, "Copyright", "2", "0", "2", "1", "-", "2", "0", "2", "5", SP, "Hewlett", SP,
        "Packard", SP, "Enterprise", SP, "Development", SP, "LP">> }

FirstLines == {<<>>, <<"x">>} \cup HeaderLines \cup NearMisses

\* What follows the first line, line terminator included.
Tails ==
    { <<>>, <<LF>>, <<LF, "x">>, <<CR, LF, "x", CR, LF>>, <<CR, "x">>,
      <<LF, "#", SP>> \o Header(<<SP>>, <<"2", "0", "2", "1">>, <<"2", "0", "2", "5">>) \o <<LF>> }

Contents == { first \o tail : first \in FirstLines, tail \in Tails }

----------------------------------------------------------------------------
\* One file, run after run (each run a call of check_and_fix_file, not dry).

InitFile ==
    /\ disk \in Contents
    /\ prefix \in Prefixes
    /\ status = "none" /\ year = 0
    /\ prevDisk = <<>> /\ prevStatus = "none" /\ prevYear = 0 /\ runs = 0 /\ nAdded = 0
    /\ IdleMain /\ IdleIgnore

Run(y) ==
    /\ runs < MaxRuns
    /\ LET r == check_and_fix_file(File(prefix, disk, "rw"), y, FALSE)
       IN  /\ disk' = r.disk
           /\ status' = r.status
           /\ nAdded' = IF r.status = "added" THEN nAdded + 1 ELSE nAdded
    /\ year' = y
    /\ prevDisk' = disk /\ prevStatus' = status /\ prevYear' = year
    /\ runs' = runs + 1
    /\ UNCHANGED <<prefix, mainVars, ignoreVars>>

NextFile == \E y \in Years : Run(y)

SpecFile == InitFile /\ [][NextFile]_vars

----------------------------------------------------------------------------
\* Properties of the single-file specification.

Recognized == prefix # NoSyntax

\* The header the code finds on the first line of the file as it was before the last run.
PrevMatch == Search(FirstLine(ReadText(prevDisk)))

\* The bytes of b from the end of its first line on (the line terminator included).
AfterFirstLine(b) ==
    IF \E i \in 1..Len(b) : b[i] \in {LF, CR}
    THEN SubSeq(b, CHOOSE i \in 1..Len(b) : b[i] \in {LF, CR} /\ \A k \in 1..(i - 1) : b[k] \notin {LF, CR},
                Len(b))
    ELSE <<>>

\* C1: two runs in succession with the same target year: the second run reports
\* ok and leaves the content as the first run left it.
C1_Idempotent ==
    (runs >= 2 /\ Recognized /\ year = prevYear) => (status = "ok" /\ disk = prevDisk)

\* C2: once a run has finished with ok, added or updated, every later run reports
\* ok or updated and never added; the file gains at most one header line in all,
\* and its first line stays a recognized header.
C2_NoDoubleInsert ==
    Recognized =>
        /\ nAdded <= 1
        /\ (runs >= 2 /\ prevStatus \in {"ok", "added", "updated"}) => status \in {"ok", "updated"}
        /\ runs >= 1 => Search(FirstLine(ReadText(disk))).found

\* C3: a header (s, e) on the first line with e # target year: the run reports
\* updated, and the file is the fresh header line for (s, target year) followed by
\* everything after the old first line, unchanged.
C3_YearUpdate ==
    (runs >= 1 /\ Recognized /\ PrevMatch.found /\ PrevMatch.end_year # year) =>
        /\ status = "updated"
        /\ disk = format_copyright_line(prefix, PrevMatch.start_year, year) \o AfterFirstLine(prevDisk)

\* C4: no header on the first line: the run reports added, and the file is the
\* header line for (target year, target year), one "\n", and the original content
\* unmodified (for an empty file: the header line and one "\n").
C4_Insertion ==
    (runs >= 1 /\ Recognized /\ ~PrevMatch.found) =>
        /\ status = "added"
        /\ disk = format_copyright_line(prefix, year, year) \o <<LF>> \o prevDisk

\* What holds of the updated and added files once line terminators are read the
\* way the code reads them: the text after the first line is the text the code read.
UpdateKeepsTextLines ==
    (runs >= 1 /\ Recognized /\ PrevMatch.found /\ PrevMatch.end_year # year) =>
        /\ status = "updated"
        /\ Lines(ReadText(disk)) =
              [Lines(ReadText(prevDisk)) EXCEPT ![1] = format_copyright_line(prefix, PrevMatch.start_year, year)]

InsertKeepsText ==
    (runs >= 1 /\ Recognized /\ ~PrevMatch.found) =>
        /\ status = "added"
        /\ ReadText(disk) = format_copyright_line(prefix, year, year) \o <<LF>> \o ReadText(prevDisk)

\* A second run with the same year changes nothing whenever the first line the
\* first run left is one the pattern matches.
IdempotentWhenHeaderReadsBack ==
    (runs >= 2 /\ Recognized /\ year = prevYear /\ PrevMatch.found)
    => (status = "ok" /\ disk = prevDisk)

----------------------------------------------------------------------------
\* get_comment_syntax and find_files

\* str.lower(), on the letters of the model's alphabet
LowerChar(c) == IF c = "P" THEN "p" ELSE IF c = "Y" THEN "y" ELSE c

Lower(text) == [i \in 1..Len(text) |-> LowerChar(text[i])]

\* Path.suffix: the name from its last "." on, when that "." is neither the first
\* nor the last character of the name; else "".
Suffix(name) ==
    IF \E i \in 2..(Len(name) - 1) : name[i] = "."
    THEN LET i == CHOOSE k \in 2..(Len(name) - 1) :
                      name[k] = "." /\ \A m \in (k + 1)..Len(name) : name[m] # "."
         IN  IF name[Len(name)] = "." THEN <<>> ELSE SubSeq(name, i, Len(name))
    ELSE <<>>

\* COMMENT_SYNTAX.get(suffix), for the extensions of the model
CommentSyntax(suffix) ==
    IF suffix = <<".", "p", "y">> THEN "#"
    ELSE IF suffix = <<".", "g", "o">> THEN "//"
    ELSE IF suffix = <<".", "h", "t", "m", "l">> THEN "<!--"
    ELSE IF suffix = <<".", "c", "s", "s">> THEN "/*"
    ELSE IF suffix = <<".", "m">> THEN "%"
    ELSE NoSyntax

get_comment_syntax(rel_parts) == CommentSyntax(Lower(Suffix(FileName(rel_parts))))

\* The parts of the resolved root path.
RootParts == << <<"/">>, <<"r">> >>

\* any(part.startswith(".") for part in file_path.parts)
Hidden(rel_parts) ==
    LET parts == RootParts \o rel_parts
    IN  \E i \in 1..Len(parts) : parts[i] # <<>> /\ parts[i][1] = "."

\* The files a tree can hold, in the order sorted() gives them.
SortedPaths ==
    << << <<".", "g">>, <<"c", ".", "p", "y">> >>,
       << <<"a", ".", "P", "Y">> >>,
       << <<"b", "u", "i", "l", "d">>, <<"b", ".", "g", "o">> >>,
       << <<"d", ".", "x", "y", "z">> >>,
       << <<"e", ".", "h", "t", "m", "l">> >> >>

\* find_files(repo_root, patterns): the files that are not hidden, not ignored and
\* have a comment syntax, sorted.
find_files(t, pats) ==
    LET Kept(rel_parts) ==
            /\ rel_parts \in DOMAIN t
            /\ ~Hidden(rel_parts)
            /\ ~should_ignore(rel_parts, pats)
            /\ get_comment_syntax(rel_parts) # NoSyntax
    IN  SelectSeq(SortedPaths, Kept)

----------------------------------------------------------------------------
\* main

Statuses == {"ok", "added", "updated", "skipped", "error"}

\* dry_run=args.dry_run or args.check_only; a mutant of it: check_only forgotten.
EffectiveDryRun_NoCheckOnly(dry_run, check_only) == dry_run

\* dry_run=args.dry_run or args.check_only
EffectiveDryRun(dry_run, check_only) == dry_run \/ check_only

\* The exit status after the summary; a mutant of it: errors do not count.
ExitStatus_ErrorsIgnored(check_only, res) ==
    IF check_only /\ (res["added"] # <<>> \/ res["updated"] # <<>>) THEN 1 ELSE 0

\* The exit status after the summary: sys.exit(1) in check-only mode when a file
\* was added or updated, sys.exit(1) when a file gave an error, else 0.
ExitStatus(check_only, res) ==
    IF check_only /\ (res["added"] # <<>> \/ res["updated"] # <<>>) THEN 1
    ELSE IF res["error"] # <<>> THEN 1
    ELSE 0

\* The inputs of main.
MainContents ==
    { <<"x", LF>>,
      <<"#", SP>> \o Header(<<SP>>, <<"2", "0", "2", "1">>, <<"2", "0", "2", "4">>) \o <<LF, "x", LF>>,
      <<"#", SP>> \o Header(<<SP>>, <<"2", "0", "2", "1">>, <<"2", "0", "2", "5">>) \o <<LF, "x", LF>>,
      <<"x", BadByte>> }

\* A file the process may not read is of interest with one content only, and a
\* file it may not decode with the permissions that let it read.
FileStates ==
    { fs \in [disk : MainContents, perm : {"rw", "ro", "no"}] :
        /\ fs.perm = "no" => fs.disk = <<"x", LF>>
        /\ ~Decodable(fs.disk) => fs.perm = "rw" }

PathSet == { SortedPaths[i] : i \in 1..Len(SortedPaths) }

Trees == UNION { [S -> FileStates] : S \in { T \in SUBSET PathSet : Cardinality(T) <= MaxFiles } }

MainYear == 2025

InitMain ==
    /\ rootExists \in BOOLEAN
    /\ tree \in (IF rootExists THEN Trees ELSE {<<>>})
    /\ tree0 = tree
    /\ args \in [dry_run : BOOLEAN, check_only : BOOLEAN, year : {MainYear}]
    /\ gitignore \in (IF rootExists
                      THEN {Absent, [exists |-> TRUE, lines |-> << <<"b", "u", "i", "l", "d", "/">> >>]}
                      ELSE {Absent})
    /\ copyrightignore = Absent
    /\ pc = "start" /\ files = <<>> /\ idx = 0
    /\ results = [st \in Statuses |-> <<>>]
    /\ exitCode = -1
    /\ ipc = "off" /\ patterns = <<>> /\ relParts = <<>> /\ ignored = FALSE
    /\ IdleFile

\* The root does not exist: the error message and sys.exit(1).
RootNotFound ==
    /\ pc = "start" /\ ~rootExists
    /\ pc' = "exited" /\ exitCode' = 1
    /\ UNCHANGED <<tree, args, files, idx, results, rootExists, tree0, fileVars, ignoreVars>>

\* The patterns are loaded and the files found.
Discover ==
    /\ pc = "start" /\ rootExists
    /\ patterns' = load_ignore_patterns(gitignore, copyrightignore)
    /\ files' = find_files(tree, patterns')
    /\ idx' = 1
    /\ pc' = "loop"
    /\ UNCHANGED <<tree, args, results, exitCode, rootExists, tree0, fileVars,
                   gitignore, copyrightignore, ipc, relParts, ignored>>

\* One turn of the loop over the files.  An exception check_and_fix_file raises is
\* caught nowhere: the interpreter prints the traceback and exits with status 1.
ProcessFile ==
    /\ pc = "loop" /\ idx <= Len(files)
    /\ LET file_path == files[idx]
           f == File(get_comment_syntax(file_path), tree[file_path].disk, tree[file_path].perm)
           r == check_and_fix_file(f, args.year, EffectiveDryRun(args.dry_run, args.check_only))
       IN  IF r.raised
           THEN /\ pc' = "crashed" /\ exitCode' = 1
                /\ UNCHANGED <<tree, results, idx>>
           ELSE /\ tree' = [tree EXCEPT ![file_path].disk = r.disk]
                /\ results' = [results EXCEPT ![r.status] = Append(@, file_path)]
                /\ idx' = idx + 1
                /\ UNCHANGED <<pc, exitCode>>
    /\ UNCHANGED <<args, files, rootExists, tree0, fileVars, ignoreVars>>

\* After the loop: the summary and the exit status.
Finish ==
    /\ pc = "loop" /\ idx > Len(files)
    /\ exitCode' = ExitStatus(args.check_only, results)
    /\ pc' = "exited"
    /\ UNCHANGED <<tree, args, files, idx, results, rootExists, tree0, fileVars, ignoreVars>>

NextMain == RootNotFound \/ Discover \/ ProcessFile \/ Finish

SpecMain == InitMain /\ [][NextMain]_vars

----------------------------------------------------------------------------
\* Properties of main.

InList(x, list) == \E i \in 1..Len(list) : list[i] = x

\* The statuses the run has given to a file.
StatusesOf(file_path) == { st \in Statuses : InList(file_path, results[st]) }

Dry == args.dry_run \/ args.check_only

\* The file as check_and_fix_file found it when main started.
FileAtStart(file_path) ==
    File(get_comment_syntax(file_path), tree0[file_path].disk, tree0[file_path].perm)

\* Reading or writing the file fails in this run: no read access, bytes that are
\* no UTF-8, or a write that is due and denied.
AccessFails(file_path) ==
    \/ tree0[file_path].perm = "no"
    \/ ~Decodable(tree0[file_path].disk)
    \/ check_and_fix_file(FileAtStart(file_path), args.year, Dry).raised

\* C5: a file whose read or write fails ends with status error and nothing else,
\* the scan goes on to the summary, and every file found is given its status.
C5_ErrorsAreFileLocal ==
    /\ pc # "crashed"
    /\ (pc = "exited" /\ rootExists) =>
          \A i \in 1..Len(files) :
              /\ Cardinality(StatusesOf(files[i])) = 1
              /\ AccessFails(files[i]) => StatusesOf(files[i]) = {"error"}

\* What holds of the read side: a file that cannot be read or decoded is given
\* error, and the files after it are processed.
ReadErrorsAreFileLocal ==
    (pc = "exited" /\ rootExists) =>
        \A i \in 1..Len(files) :
            /\ Cardinality(StatusesOf(files[i])) = 1
            /\ (tree0[files[i]].perm = "no" \/ ~Decodable(tree0[files[i]].disk))
                  => StatusesOf(files[i]) = {"error"}

\* In a writing run a file changes only when its status is added or updated.
WrittenOnlyWhenAddedOrUpdated ==
    \A file_path \in DOMAIN tree :
        tree[file_path] # tree0[file_path] =>
            /\ tree[file_path].perm = tree0[file_path].perm
            /\ StatusesOf(file_path) \in {{"added"}, {"updated"}}

\* What a writing run returns for the file as it was when main started.
WritingRun(file_path) == check_and_fix_file(FileAtStart(file_path), args.year, FALSE)

C7_ExitStatus ==
    (pc = "exited" /\ rootExists) =>
        ( (exitCode # 0) <=>
            ( \/ (args.check_only /\ \E i \in 1..Len(files) :
                                        StatusesOf(files[i]) \cap {"added", "updated"} # {})
              \/ \E i \in 1..Len(files) : "error" \in StatusesOf(files[i]) ) )

\* A dry run without check-only that found a file to change and exits with 0.
C7_Witness ==
    /\ pc = "exited" /\ rootExists
    /\ args.dry_run /\ ~args.check_only
    /\ results["added"] # <<>> /\ results["error"] = <<>>
    /\ exitCode = 0

\* A run that found an error and nothing to change, and exits with 1.
C7_WitnessError ==
    /\ pc = "exited" /\ rootExists /\ ~args.check_only
    /\ results["error"] # <<>> /\ results["added"] = <<>> /\ results["updated"] = <<>>
    /\ exitCode = 1

====
